---- MODULE Spec2Model ----
(***************************************************************************)
(* Contacts REST backend: registration, e-mail confirmation, JWT bearer    *)
(* authentication with a Redis user cache, password reset, per-owner       *)
(* contact CRUD and the admin-only avatar update.                          *)
(*                                                                         *)
(* The relational store is the pair (users, contacts); the Redis cache is  *)
(* one key space "user:<string>" shared by src/api/auth.py (keyed by       *)
(* e-mail) and src/services/auth.py (keyed by username).  Time is counted  *)
(* in ticks of 1/Sub second so that the whole-second truncation of the     *)
(* JWT "exp" claim is modelled and not assumed away.                       *)
(***************************************************************************)
EXTENDS Integers, Sequences, FiniteSets, TLC

VARIABLES
    users,            \* table "users": sequence of rows, row i has id i
    contacts,         \* table "contacts": set of rows [id, user_id, data]
    next_contact_id,  \* the serial of contacts.id
    cache,            \* Redis: key -> NoEntry or [val, expire_at]
    tokens,           \* every JWT the token service has produced so far
    now,              \* wall clock, in ticks
    advances,         \* how often the clock was moved (bounded)
    inflight,         \* register requests suspended at an await
    last              \* the last request and its response

vars == <<users, contacts, next_contact_id, cache, tokens, now, advances,
          inflight, last>>

----------------------------------------------------------------------------
(* Bounds of the model *)

Sub == 2            \* clock ticks per second
MaxContacts == 1    \* contacts ever created
MaxAdvances == 2    \* moves of the clock
MaxInflight == 2    \* register requests in flight at once
MaxTokens == 2      \* tokens kept when the token service is driven alone

(* Strings a client may send as username and as e-mail.  UserCreate types  *)
(* both as plain str, so the same string may be one identity's username    *)
(* and another identity's e-mail.                                          *)
Names == {"a@x.io", "b@x.io"}
Passwords == {"p", "q"}
RegPasswords == {"p"}
ContactData == {"x", "y"}
None == "None"

----------------------------------------------------------------------------
(* Module globals: the names a module binds at import time.  A name that   *)
(* a function body reads and that is in neither set raises NameError when  *)
(* the line runs.                                                          *)

api_auth_globals ==
    {"json", "redis", "APIRouter", "BackgroundTasks", "Depends",
     "HTTPException", "Request", "Security", "status",
     "OAuth2PasswordRequestForm", "Session", "AsyncSession", "RequestEmail",
     "Token", "User", "UserCreate", "UserLogin", "PasswordResetRequest",
     "PasswordResetConfirm", "get_db", "Hash", "create_access_token",
     "get_email_from_token", "verify_reset_token", "send_email",
     "send_reset_email", "UserService", "messages", "router",
     "get_cached_user", "cache_user"}

services_auth_globals ==
    {"json", "datetime", "timedelta", "UTC", "Optional", "Depends",
     "HTTPException", "status", "CryptContext", "HTTPBearer",
     "HTTPAuthorizationCredentials", "Session", "JWTError", "jwt", "get_db",
     "settings", "UserService", "redis_client", "User", "UserRole", "Hash",
     "oauth2_scheme"}

----------------------------------------------------------------------------
(* Program constants.  The two token lifetimes read from the settings     *)
(* object are set in src/conf/config.py, which is not among the sources;   *)
(* the values below stand for any positive number of seconds.              *)

CACHE_TTL == 3600               \* setex(..., 3600, ...)
EMAIL_TOKEN_DAYS == 7           \* timedelta(days=7)
SECONDS_PER_DAY == 86400
JWT_EXPIRATION_SECONDS == 3600  \* settings.JWT_EXPIRATION_SECONDS
RESET_TOKEN_EXPIRY == 1800      \* app_config.RESET_TOKEN_EXPIRY

HTTP_200 == 200
HTTP_201 == 201
HTTP_204 == 204
HTTP_400 == 400
HTTP_401 == 401
HTTP_403 == 403
HTTP_404 == 404
HTTP_409 == 409
HTTP_422 == 422
HTTP_429 == 429
HTTP_500 == 500

----------------------------------------------------------------------------
(* Credential hasher (passlib bcrypt): a salted digest that verifies       *)
(* exactly the plaintext it was made from.                                 *)

Salts == {"s1"}

NoHash == [alg |-> "none", salt |-> "", pw |-> ""]

get_password_hash(password, salt) ==
    [alg |-> "bcrypt", salt |-> salt, pw |-> password]

verify_password(plain_password, hashed_password) ==
    hashed_password.pw = plain_password

----------------------------------------------------------------------------
(* Token service.  A token is its payload plus the state of its signature; *)
(* jose encodes a datetime claim as whole seconds (timegm of the time      *)
(* tuple) and jwt.decode raises ExpiredSignatureError, a JWTError, exactly *)
(* when exp < timegm(now).                                                 *)

NoIat == -1

timegm(t) == t \div Sub

Seconds(s) == s * Sub

(* kind names the function that made the token.  It is not part of the    *)
(* JWT: no verifier reads it.                                              *)
jwt_encode(kind, sub, expire, iat) ==
    [kind |-> kind, sub |-> sub, exp |-> timegm(expire), iat |-> iat,
     sig |-> "ok"]

Ok(v) == [ok |-> TRUE, val |-> v, err |-> None]
Raise(e) == [ok |-> FALSE, val |-> None, err |-> e]

NoToken ==
    [kind |-> None, sub |-> None, exp |-> 0, iat |-> NoIat, sig |-> "none"]
Malformed ==
    [kind |-> None, sub |-> None, exp |-> 0, iat |-> NoIat, sig |-> "malformed"]
Tampered(token) == [token EXCEPT !.sig = "bad"]

jwt_decode(token, t) ==
    IF token.sig # "ok" THEN Raise("JWTError")
    ELSE IF token.exp < timegm(t) THEN Raise("JWTError")
    ELSE Ok(token.sub)

(* expires_delta = 0 stands for "not supplied" as well as for the value 0: *)
(* the code tests `if expires_delta:`.                                     *)
create_access_token(sub, expires_delta, t) ==
    IF expires_delta # 0
    THEN Ok(jwt_encode("access", sub, t + Seconds(expires_delta), NoIat))
    ELSE Ok(jwt_encode("access", sub, t + Seconds(JWT_EXPIRATION_SECONDS),
                       NoIat))

create_reset_token(email, t) ==
    IF "app_config" \notin services_auth_globals THEN Raise("NameError")
    ELSE Ok(jwt_encode("reset", email, t + Seconds(RESET_TOKEN_EXPIRY), NoIat))

verify_reset_token(token, t) ==
    IF "app_config" \notin services_auth_globals THEN Raise("NameError")
    ELSE LET d == jwt_decode(token, t) IN
         IF d.ok THEN Ok(d.val) ELSE Ok(None)

create_email_token(sub, t) ==
    Ok(jwt_encode("email", sub,
                  t + Seconds(EMAIL_TOKEN_DAYS * SECONDS_PER_DAY), timegm(t)))

get_email_from_token(token, t) ==
    LET d == jwt_decode(token, t) IN
    IF d.ok THEN Ok(d.val) ELSE Raise("HTTP_422")

----------------------------------------------------------------------------
(* Relational store: UserRepository and ContactRepository *)

NoUser ==
    [id |-> 0, username |-> None, email |-> None, hashed_password |-> NoHash,
     confirmed |-> FALSE, role |-> None, avatar |-> None]

RowsWhere(us, P(_)) == {i \in 1..Len(us) : P(us[i])}

scalar_one_or_none(us, ids) ==
    IF ids = {} THEN NoUser ELSE us[CHOOSE i \in ids : TRUE]

get_user_by_username(us, username) ==
    LET P(r) == r.username = username IN scalar_one_or_none(us, RowsWhere(us, P))

get_user_by_email(us, email) ==
    LET P(r) == r.email = email IN scalar_one_or_none(us, RowsWhere(us, P))

(* The unique constraints of the users table (username, email). *)
UniqueViolation(us, username, email) ==
    \E i \in 1..Len(us) : us[i].username = username \/ us[i].email = email

(* UserService.create_user + UserRepository.create_user: the row as the    *)
(* commit stores it; confirmed takes the column default, avatar is the     *)
(* Gravatar URL of the e-mail.                                             *)
NewUserRow(us, username, email, hashed_password, role) ==
    [id |-> Len(us) + 1, username |-> username, email |-> email,
     hashed_password |-> hashed_password, confirmed |-> FALSE, role |-> role,
     avatar |-> "gravatar"]

create_user(us, username, email, hashed_password, role) ==
    IF UniqueViolation(us, username, email) THEN Raise("IntegrityError")
    ELSE Ok(Append(us, NewUserRow(us, username, email, hashed_password, role)))

repo_confirmed_email_all(us, email) ==
    [i \in 1..Len(us) |-> [us[i] EXCEPT !.confirmed = TRUE]]

repo_confirmed_email(us, email) ==
    [i \in 1..Len(us) |->
        IF us[i].email = email THEN [us[i] EXCEPT !.confirmed = TRUE] ELSE us[i]]

update_avatar_url_unconfirming(us, email, url) ==
    [i \in 1..Len(us) |->
        IF us[i].email = email
        THEN [us[i] EXCEPT !.avatar = url, !.confirmed = FALSE] ELSE us[i]]

update_avatar_url(us, email, url) ==
    [i \in 1..Len(us) |->
        IF us[i].email = email THEN [us[i] EXCEPT !.avatar = url] ELSE us[i]]

update_password_everyone(us, email, new_password) ==
    [i \in 1..Len(us) |-> [us[i] EXCEPT !.hashed_password = new_password]]

update_password(us, email, new_password) ==
    [i \in 1..Len(us) |->
        IF us[i].email = email THEN [us[i] EXCEPT !.hashed_password = new_password]
        ELSE us[i]]

(* The bearer identity the gate hands to a handler is either the ORM row   *)
(* (type "User") or the dict json.loads returned (type "dict").  A dict    *)
(* compared with the Contact.user relationship, or assigned to it, raises  *)
(* in SQLAlchemy before any statement is sent.                             *)
IsMapped(user) == user.type = "User"

get_contacts(cs, user) ==
    IF ~IsMapped(user) THEN Raise("ArgumentError")
    ELSE Ok({c \in cs : c.user_id = user.row.id})

get_contact_by_id(cs, contact_id, user) ==
    IF ~IsMapped(user) THEN Raise("ArgumentError")
    ELSE Ok({c \in cs : c.user_id = user.row.id /\ c.id = contact_id})

repo_create_contact(cs, nid, body, user) ==
    IF ~IsMapped(user) THEN Raise("AttributeError")
    ELSE Ok(cs \cup {[id |-> nid, user_id |-> user.row.id, data |-> body]})

repo_remove_contact_of_owner(cs, contact_id, user) ==
    LET found == get_contact_by_id(cs, contact_id, user) IN
    IF ~found.ok THEN [found |-> found, cs |-> cs]
    ELSE IF found.val = {} THEN [found |-> found, cs |-> cs]
    ELSE [found |-> found, cs |-> {c \in cs : c.user_id # user.row.id}]

repo_remove_contact(cs, contact_id, user) ==
    LET found == get_contact_by_id(cs, contact_id, user) IN
    IF ~found.ok THEN [found |-> found, cs |-> cs]
    ELSE [found |-> found, cs |-> cs \ found.val]

repo_update_contact(cs, contact_id, body, user) ==
    LET found == get_contact_by_id(cs, contact_id, user) IN
    IF ~found.ok THEN [found |-> found, cs |-> cs]
    ELSE [found |-> Ok({[c EXCEPT !.data = body] : c \in found.val}),
          cs |-> (cs \ found.val) \cup {[c EXCEPT !.data = body] : c \in found.val}]

----------------------------------------------------------------------------
(* Redis: one key space.  Both get_cached_user/cache_user (by e-mail) and  *)
(* get_current_user (by username) build the key as "user:" + string, so    *)
(* the key is modelled by that string.                                     *)

(* A dict as json.loads returns it; keys names the keys it has.  NoDict is  *)
(* the None of a missing key (falsy, like every value without keys).       *)
NoDict ==
    [keys |-> {}, id |-> 0, username |-> None, email |-> None,
     hashed_password |-> NoHash]

Truthy(d) == d.keys # {}

NoEntry == [present |-> FALSE, val |-> NoDict, expire_at |-> 0]

Live(e, t) == e.present /\ t < e.expire_at

redis_get(c, key, t) ==
    IF Live(c[key], t) THEN c[key].val ELSE NoDict

redis_setex(c, key, ttl, value, t) ==
    [c EXCEPT ![key] =
        [present |-> TRUE, val |-> value, expire_at |-> t + Seconds(ttl)]]

(* The GET each namespace sends to Redis: get_cached_user asks for         *)
(* f"user:{email}", get_current_user for f"user:{username}".               *)
by_email_get(c, email, t) == redis_get(c, email, t)

by_username_get(c, username, t) == redis_get(c, username, t)

(* The dicts the code builds and stores with json.dumps. *)
login_user_data(user) ==
    [keys |-> {"username", "email", "hashed_password"}, id |-> 0,
     username |-> user.username, email |-> user.email,
     hashed_password |-> user.hashed_password]

gate_user_data(user) ==
    [keys |-> {"id", "username", "email"}, id |-> user.id,
     username |-> user.username, email |-> user.email,
     hashed_password |-> NoHash]

get_cached_user(c, email, t) ==
    IF "redis_client" \notin api_auth_globals THEN Raise("NameError")
    ELSE Ok(redis_get(c, email, t))

cache_user(c, email, user_data, t) ==
    IF "redis_client" \notin api_auth_globals THEN Raise("NameError")
    ELSE Ok(redis_setex(c, email, CACHE_TTL, user_data, t))

----------------------------------------------------------------------------
(* Handlers.  A handler maps the state S it finds, the time t and its      *)
(* request to the response and the state it leaves.  An exception no       *)
(* handler catches is answered by the framework with status 500.           *)

St(us, cs, nid, c, toks) ==
    [users |-> us, contacts |-> cs, next_contact_id |-> nid, cache |-> c,
     tokens |-> toks]

HR(status, detail, uid, result, S) ==
    [status |-> status, detail |-> detail, uid |-> uid, result |-> result,
     S |-> S]

H(status, detail, uid, S) == HR(status, detail, uid, {}, S)

(* Background task send_email: the confirmation token is made first, the   *)
(* mail then leaves the process.                                           *)
send_email(S, t, email) ==
    [S EXCEPT !.tokens = @ \cup {create_email_token(email, t).val}]

(* Background task send_reset_email: create_reset_token raises before any  *)
(* token exists; the response has been sent already.                       *)
send_reset_email(S, t, email) ==
    LET tk == create_reset_token(email, t) IN
    IF tk.ok THEN [S EXCEPT !.tokens = @ \cup {tk.val}] ELSE S

(* register_user, one await at a time *)
register_check_email(S, email) ==
    get_user_by_email(S.users, email).id # 0

register_check_username(S, username) ==
    get_user_by_username(S.users, username).id # 0

register_create(S, t, username, email, password, role, salt) ==
    LET made == create_user(S.users, username, email,
                            get_password_hash(password, salt), role) IN
    IF ~made.ok THEN H(HTTP_500, made.err, 0, S)
    ELSE H(HTTP_201, "created", Len(made.val),
           send_email([S EXCEPT !.users = made.val], t, email))

register_user(S, t, username, email, password, role, salt) ==
    IF register_check_email(S, email)
    THEN H(HTTP_409, "API_ERROR_USER_ALREADY_EXIST", 0, S)
    ELSE IF register_check_username(S, username)
    THEN H(HTTP_409, "username exists", 0, S)
    ELSE register_create(S, t, username, email, password, role, salt)

login_user_unguarded(S, t, email, password) ==
    LET user == get_user_by_email(S.users, email) IN
    IF user.id = 0 \/ ~verify_password(password, user.hashed_password)
    THEN H(HTTP_401, "API_ERROR_WRONG_PASSWORD", 0, S)
    ELSE H(HTTP_200, "access_token", user.id,
           [S EXCEPT !.tokens = @ \cup
               {create_access_token(user.username, 0, t).val}])

login_user(S, t, email, password) ==
    LET cached == get_cached_user(S.cache, email, t) IN
    IF ~cached.ok THEN H(HTTP_500, cached.err, 0, S)
    ELSE IF Truthy(cached.val) THEN
        IF "hashed_password" \notin cached.val.keys
        THEN H(HTTP_500, "KeyError", 0, S)
        ELSE IF ~verify_password(password, cached.val.hashed_password)
        THEN H(HTTP_401, "API_ERROR_WRONG_PASSWORD", 0, S)
        ELSE H(HTTP_200, "access_token", 0,
               [S EXCEPT !.tokens =
                   @ \cup {create_access_token(cached.val.username, 0, t).val}])
    ELSE
        LET user == get_user_by_email(S.users, email) IN
        IF user.id # 0 /\ ~user.confirmed
        THEN H(HTTP_401, "API_ERROR_USER_NOT_AUTHORIZED", 0, S)
        ELSE IF user.id = 0 \/ ~verify_password(password, user.hashed_password)
        THEN H(HTTP_401, "API_ERROR_WRONG_PASSWORD", 0, S)
        ELSE
            LET put == cache_user(S.cache, user.email, login_user_data(user), t) IN
            IF ~put.ok THEN H(HTTP_500, put.err, 0, S)
            ELSE H(HTTP_200, "access_token", user.id,
                   [S EXCEPT !.cache = put.val,
                             !.tokens = @ \cup
                                 {create_access_token(user.username, 0, t).val}])

request_email(S, t, email) ==
    LET user == get_user_by_email(S.users, email) IN
    IF user.id = 0 THEN H(HTTP_500, "AttributeError", 0, S)
    ELSE IF user.confirmed THEN H(HTTP_200, "already confirmed", user.id, S)
    ELSE H(HTTP_200, "check your email", user.id, send_email(S, t, user.email))

confirmed_email(S, t, token) ==
    LET email == get_email_from_token(token, t) IN
    IF ~email.ok THEN H(HTTP_422, "invalid token", 0, S)
    ELSE
        LET user == get_user_by_email(S.users, email.val) IN
        IF user.id = 0 THEN H(HTTP_400, "Verification error", 0, S)
        ELSE IF user.confirmed THEN H(HTTP_200, "already confirmed", user.id, S)
        ELSE H(HTTP_200, "confirmed", user.id,
               [S EXCEPT !.users = repo_confirmed_email(S.users, email.val)])

forgot_password(S, t, email) ==
    LET user == get_user_by_email(S.users, email) IN
    IF user.id = 0 THEN H(HTTP_404, "User not found", 0, S)
    ELSE H(HTTP_200, "reset email sent", user.id,
           send_reset_email(S, t, user.email))

reset_password(S, t, token, new_password, salt) ==
    LET email == verify_reset_token(token, t) IN
    IF ~email.ok THEN H(HTTP_500, email.err, 0, S)
    ELSE IF email.val = None THEN H(HTTP_400, "Invalid or expired token", 0, S)
    ELSE
        LET user == get_user_by_email(S.users, email.val) IN
        IF user.id = 0 THEN H(HTTP_404, "User not found", 0, S)
        ELSE H(HTTP_200, "Password successfully reset", user.id,
               [S EXCEPT !.users =
                   update_password(S.users, email.val,
                                   get_password_hash(new_password, salt))])

----------------------------------------------------------------------------
(* Authentication gate *)

NoCurrentUser == [type |-> "none", row |-> NoUser, d |-> NoDict]

(* get_current_user: decode, look the subject up in the store, then ask    *)
(* Redis; a hit returns the dict, a miss stores {id, username, email} and  *)
(* returns the ORM row.                                                    *)
get_current_user_unverified(S, t, token) ==
    LET user == get_user_by_username(S.users, token.sub) IN
    IF user.id = 0
    THEN [status |-> HTTP_401, user |-> NoCurrentUser, S |-> S]
    ELSE [status |-> HTTP_200,
          user |-> [type |-> "User", row |-> user, d |-> NoDict],
          S |-> [S EXCEPT !.cache =
                    redis_setex(S.cache, token.sub, CACHE_TTL,
                                gate_user_data(user), t)]]

get_current_user(S, t, token) ==
    LET payload == jwt_decode(token, t) IN
    IF ~payload.ok THEN [status |-> HTTP_401, user |-> NoCurrentUser, S |-> S]
    ELSE
        LET username == payload.val
            user == get_user_by_username(S.users, username)
            cached_user == redis_get(S.cache, username, t)
        IN
        IF user.id = 0
        THEN [status |-> HTTP_401, user |-> NoCurrentUser, S |-> S]
        ELSE IF Truthy(cached_user)
        THEN [status |-> HTTP_200,
              user |-> [type |-> "dict", row |-> NoUser, d |-> cached_user],
              S |-> S]
        ELSE [status |-> HTTP_200,
              user |-> [type |-> "User", row |-> user, d |-> NoDict],
              S |-> [S EXCEPT !.cache =
                        redis_setex(S.cache, username, CACHE_TTL,
                                    gate_user_data(user), t)]]

(* The reads and writes get_current_user awaits, in the order of the code. *)
get_current_user_io(S, t, token) ==
    LET payload == jwt_decode(token, t) IN
    IF ~payload.ok THEN <<>>
    ELSE
        LET username == payload.val
            user == get_user_by_username(S.users, username)
        IN
        IF user.id = 0 THEN <<"store.get_user_by_username">>
        ELSE IF Truthy(redis_get(S.cache, username, t))
        THEN <<"store.get_user_by_username", "redis.get">>
        ELSE <<"store.get_user_by_username", "redis.get",
               "store.get_user_by_username", "redis.setex">>

(* get_current_user while Redis does not answer: redis_client.get (fault   *)
(* "get") or redis_client.setex (fault "setex") raises ConnectionError.    *)
(* Neither await stands in a try block, so the exception leaves the        *)
(* dependency and the request is answered 500.                             *)
RedisFaults == {"get", "setex"}

get_current_user_faulty(S, t, token, fault) ==
    LET payload == jwt_decode(token, t) IN
    IF ~payload.ok THEN [status |-> HTTP_401, user |-> NoCurrentUser, S |-> S]
    ELSE
        LET username == payload.val
            user == get_user_by_username(S.users, username)
        IN
        IF user.id = 0
        THEN [status |-> HTTP_401, user |-> NoCurrentUser, S |-> S]
        ELSE IF fault = "get"
        THEN [status |-> HTTP_500, user |-> NoCurrentUser, S |-> S]
        ELSE IF Truthy(redis_get(S.cache, username, t))
        THEN [status |-> HTTP_200,
              user |-> [type |-> "dict", row |-> NoUser,
                        d |-> redis_get(S.cache, username, t)],
              S |-> S]
        ELSE [status |-> HTTP_500, user |-> NoCurrentUser, S |-> S]

(* get_current_admin_user reads current_user.role: an attribute the ORM    *)
(* row has and a dict has not.                                             *)
get_current_admin_user(S, t, token) ==
    LET g == get_current_user(S, t, token) IN
    IF g.status # HTTP_200 THEN g
    ELSE IF g.user.type # "User" THEN [g EXCEPT !.status = HTTP_500]
    ELSE IF g.user.row.role # "ADMIN" THEN [g EXCEPT !.status = HTTP_403]
    ELSE g

(* The states one run of the gate passes: TokenPresented on entry,          *)
(* TokenVerified once jwt.decode returned the subject, IdentityResolved     *)
(* once the store returned a row for it; the run ends Authorized when the   *)
(* dependency returns, Rejected when it raises HTTPException (401, 403),    *)
(* and with the name of the exception when another one leaves it.          *)
gate_run(S, t, token, admin) ==
    LET payload == jwt_decode(token, t) IN
    IF ~payload.ok THEN <<"TokenPresented", "Rejected">>
    ELSE IF get_user_by_username(S.users, payload.val).id = 0
    THEN <<"TokenPresented", "TokenVerified", "Rejected">>
    ELSE
        LET g == IF admin THEN get_current_admin_user(S, t, token)
                 ELSE get_current_user(S, t, token)
        IN
        <<"TokenPresented", "TokenVerified", "IdentityResolved",
          CASE g.status = HTTP_200 -> "Authorized"
            [] g.status = HTTP_403 -> "Rejected"
            [] g.status = HTTP_401 -> "Rejected"
            [] OTHER -> "AttributeError">>

GateDetail(status) ==
    IF status = HTTP_401 THEN "Could not validate credentials"
    ELSE IF status = HTTP_403 THEN "insufficient rights"
    ELSE "AttributeError"

----------------------------------------------------------------------------
(* /users *)

me(S, t, token, rate_limited) ==
    LET g == get_current_user(S, t, token) IN
    IF g.status # HTTP_200 THEN H(g.status, GateDetail(g.status), 0, g.S)
    ELSE IF rate_limited THEN H(HTTP_429, "RateLimitExceeded", 0, g.S)
    ELSE IF g.user.type # "User" THEN H(HTTP_500, "ResponseValidationError", 0, g.S)
    ELSE H(HTTP_200, "user", g.user.row.id, g.S)

update_avatar_user(S, t, token, upload_ok) ==
    LET g == get_current_admin_user(S, t, token) IN
    IF g.status # HTTP_200 THEN H(g.status, GateDetail(g.status), 0, g.S)
    ELSE IF ~upload_ok THEN H(HTTP_500, "upload failed", 0, g.S)
    ELSE H(HTTP_200, "user", g.user.row.id,
           [g.S EXCEPT !.users =
               update_avatar_url(g.S.users, g.user.row.email, "cloudinary")])

----------------------------------------------------------------------------
(* /contacts *)

Ids(cs) == {c.id : c \in cs}

read_contacts(S, t, token) ==
    LET g == get_current_user(S, t, token) IN
    IF g.status # HTTP_200 THEN H(g.status, GateDetail(g.status), 0, g.S)
    ELSE LET r == get_contacts(g.S.contacts, g.user) IN
         IF ~r.ok THEN H(HTTP_500, r.err, 0, g.S)
         ELSE HR(HTTP_200, "contacts", g.user.row.id, Ids(r.val), g.S)

read_contact(S, t, token, contact_id) ==
    LET g == get_current_user(S, t, token) IN
    IF g.status # HTTP_200 THEN H(g.status, GateDetail(g.status), 0, g.S)
    ELSE LET r == get_contact_by_id(g.S.contacts, contact_id, g.user) IN
         IF ~r.ok THEN H(HTTP_500, r.err, 0, g.S)
         ELSE IF r.val = {} THEN H(HTTP_404, "CONTACT_NOT_FOUND", g.user.row.id, g.S)
         ELSE HR(HTTP_200, "contact", g.user.row.id, Ids(r.val), g.S)

create_contact(S, t, token, body) ==
    LET g == get_current_user(S, t, token) IN
    IF g.status # HTTP_200 THEN H(g.status, GateDetail(g.status), 0, g.S)
    ELSE LET r == repo_create_contact(g.S.contacts, g.S.next_contact_id, body,
                                      g.user) IN
         IF ~r.ok THEN H(HTTP_500, r.err, 0, g.S)
         ELSE HR(HTTP_201, "contact", g.user.row.id, {g.S.next_contact_id},
                 [g.S EXCEPT !.contacts = r.val,
                             !.next_contact_id = @ + 1])

update_contact(S, t, token, contact_id, body) ==
    LET g == get_current_user(S, t, token) IN
    IF g.status # HTTP_200 THEN H(g.status, GateDetail(g.status), 0, g.S)
    ELSE LET r == repo_update_contact(g.S.contacts, contact_id, body, g.user) IN
         IF ~r.found.ok THEN H(HTTP_500, r.found.err, 0, g.S)
         ELSE IF r.found.val = {}
         THEN H(HTTP_404, "CONTACT_NOT_FOUND", g.user.row.id, g.S)
         ELSE HR(HTTP_200, "contact", g.user.row.id, Ids(r.found.val),
                 [g.S EXCEPT !.contacts = r.cs])

remove_contact(S, t, token, contact_id) ==
    LET g == get_current_user(S, t, token) IN
    IF g.status # HTTP_200 THEN H(g.status, GateDetail(g.status), 0, g.S)
    ELSE LET r == repo_remove_contact(g.S.contacts, contact_id, g.user) IN
         IF ~r.found.ok THEN H(HTTP_500, r.found.err, 0, g.S)
         ELSE IF r.found.val = {}
         THEN H(HTTP_404, "CONTACT_NOT_FOUND", g.user.row.id, g.S)
         ELSE H(HTTP_204, "deleted", g.user.row.id, [g.S EXCEPT !.contacts = r.cs])

(* The two endpoints call the service without its `user` argument: the     *)
(* call raises TypeError once the gate has let the request through.        *)
api_search_contacts(S, t, token) ==
    LET g == get_current_user(S, t, token) IN
    IF g.status # HTTP_200 THEN H(g.status, GateDetail(g.status), 0, g.S)
    ELSE H(HTTP_500, "TypeError", 0, g.S)

api_upcoming_birthdays(S, t, token) ==
    LET g == get_current_user(S, t, token) IN
    IF g.status # HTTP_200 THEN H(g.status, GateDetail(g.status), 0, g.S)
    ELSE H(HTTP_500, "TypeError", 0, g.S)

----------------------------------------------------------------------------
(* State machine *)

Roles == {"USER", "ADMIN"}
ContactIds == 1..(MaxContacts + 1)
Slots == 1..MaxInflight

Idle == [pc |-> "idle", username |-> None, email |-> None, password |-> None,
         role |-> None]

Cur == St(users, contacts, next_contact_id, cache, tokens)

(* What a client may present as a token: a token the service produced, one *)
(* of those with its signature broken, or a string that is no JWT.         *)
Presented == tokens \cup {Tampered(k) : k \in tokens} \cup {Malformed}

(* How a presented token stands at time t, told from the token alone. *)
Expired(token, t) == token.exp < timegm(t)

TokenClass(token, t) ==
    IF token.sig = "malformed" THEN "malformed"
    ELSE IF token.sig = "bad" THEN "bad_signature"
    ELSE IF Expired(token, t) THEN "expired"
    ELSE "valid"

Args(username, email, password, token) ==
    [username |-> username, email |-> email, password |-> password,
     tok |-> IF token = NoToken THEN "none" ELSE TokenClass(token, now)]

Last(op, args, status, detail, uid) ==
    [op |-> op, status |-> status, detail |-> detail, uid |-> uid,
     username |-> args.username, email |-> args.email,
     password |-> args.password, tok |-> args.tok]

NoArgs == Args(None, None, None, NoToken)

(* A handler ran to its response: the state becomes the one it left, and   *)
(* last keeps the request and how it was answered.                         *)
Reply(op, args, r) ==
    /\ users' = r.S.users
    /\ contacts' = r.S.contacts
    /\ next_contact_id' = r.S.next_contact_id
    /\ cache' = r.S.cache
    /\ tokens' = r.S.tokens
    /\ last' = Last(op, args, r.status, r.detail, r.uid)
    /\ UNCHANGED <<now, advances>>

Respond(op, args, r) == Reply(op, args, r) /\ UNCHANGED inflight

Init ==
    /\ users = <<>>
    /\ contacts = {}
    /\ next_contact_id = 1
    /\ cache = [k \in Names |-> NoEntry]
    /\ tokens = {}
    /\ now = 0
    /\ advances = 0
    /\ inflight = [i \in Slots |-> Idle]
    /\ last = Last("none", NoArgs, 0, None, 0)

Register ==
    \E username \in Names, email \in Names, password \in RegPasswords,
       role \in Roles, salt \in Salts :
        Respond("register", Args(username, email, password, NoToken),
                register_user(Cur, now, username, email, password, role, salt))

Login ==
    \E email \in Names, password \in Passwords :
        Respond("login", Args(None, email, password, NoToken),
                login_user(Cur, now, email, password))

RequestEmail ==
    \E email \in Names :
        Respond("request_email", Args(None, email, None, NoToken),
                request_email(Cur, now, email))

ConfirmedEmail ==
    \E token \in Presented :
        Respond("confirmed_email", Args(None, None, None, token),
                confirmed_email(Cur, now, token))

ForgotPassword ==
    \E email \in Names :
        Respond("forgot_password", Args(None, email, None, NoToken),
                forgot_password(Cur, now, email))

ResetPassword ==
    \E token \in Presented, new_password \in Passwords, salt \in Salts :
        Respond("reset_password", Args(None, None, new_password, token),
                reset_password(Cur, now, token, new_password, salt))

Me ==
    \E token \in Presented, rate_limited \in BOOLEAN :
        Respond("me", Args(None, None, None, token), me(Cur, now, token, rate_limited))

UpdateAvatar ==
    \E token \in Presented, upload_ok \in BOOLEAN :
        Respond("update_avatar_user", Args(None, None, None, token),
                update_avatar_user(Cur, now, token, upload_ok))

ReadContacts ==
    \E token \in Presented :
        Respond("read_contacts", Args(None, None, None, token),
                read_contacts(Cur, now, token))

ReadContact ==
    \E token \in Presented, cid \in ContactIds :
        Respond("read_contact", Args(None, None, None, token),
                read_contact(Cur, now, token, cid))

CreateContact ==
    \E token \in Presented, body \in {"x"} :
        /\ next_contact_id <= MaxContacts
        /\ Respond("create_contact", Args(None, None, None, token),
                   create_contact(Cur, now, token, body))

UpdateContact ==
    \E token \in Presented, cid \in ContactIds, body \in {"y"} :
        Respond("update_contact", Args(None, None, None, token),
                update_contact(Cur, now, token, cid, body))

RemoveContact ==
    \E token \in Presented, cid \in ContactIds :
        Respond("remove_contact", Args(None, None, None, token),
                remove_contact(Cur, now, token, cid))

SearchContacts ==
    \E token \in Presented :
        Respond("search_contacts", Args(None, None, None, token),
                api_search_contacts(Cur, now, token))

UpcomingBirthdays ==
    \E token \in Presented :
        Respond("upcoming_birthdays", Args(None, None, None, token),
                api_upcoming_birthdays(Cur, now, token))

(* The clock.  Redis drops the entries whose lifetime is over. *)
Expire(c, t) == [k \in DOMAIN c |-> IF Live(c[k], t) THEN c[k] ELSE NoEntry]

EmailTokenLifetime == Seconds(EMAIL_TOKEN_DAYS * SECONDS_PER_DAY)

Jump(seq) == seq[(advances % Len(seq)) + 1]

Pass(d) ==
    /\ now' = now + d
    /\ advances' = advances + 1
    /\ cache' = Expire(cache, now + d)
    /\ last' = Last("advance", NoArgs, 0, None, 0)
    /\ UNCHANGED <<users, contacts, next_contact_id, tokens, inflight>>

(* To the instant a confirmation token made at the start expires, then one *)
(* second on.                                                              *)
Advance == advances < MaxAdvances /\ Pass(Jump(<<EmailTokenLifetime, Sub>>))

(* To the end of a cache lifetime, then past a token's lifetime. *)
GateTimes == <<Seconds(CACHE_TTL), EmailTokenLifetime + Sub>>

AdvanceGate == advances < Len(GateTimes) /\ Pass(GateTimes[advances + 1])

(* Registration, confirmation, login and password reset *)
Next ==
    \/ Register
    \/ Login
    \/ RequestEmail
    \/ ConfirmedEmail
    \/ ForgotPassword
    \/ ResetPassword
    \/ Advance

Spec == Init /\ [][Next]_vars

(* The endpoints behind the authentication gate *)
NextGate ==
    \/ Register
    \/ Me
    \/ UpdateAvatar
    \/ ReadContacts
    \/ ReadContact
    \/ CreateContact
    \/ UpdateContact
    \/ RemoveContact
    \/ SearchContacts
    \/ UpcomingBirthdays
    \/ AdvanceGate

SpecGate == Init /\ [][NextGate]_vars

(* register_user with its awaits as steps: between two of them another    *)
(* request may run.                                                        *)
RegStart(i) ==
    \E username \in Names, email \in Names, password \in RegPasswords,
       role \in Roles :
        LET args == Args(username, email, password, NoToken) IN
        /\ inflight[i].pc = "idle"
        /\ IF register_check_email(Cur, email)
           THEN /\ Reply("register", args,
                         H(HTTP_409, "API_ERROR_USER_ALREADY_EXIST", 0, Cur))
                /\ UNCHANGED inflight
           ELSE /\ Reply("register", args, H(0, "pending", 0, Cur))
                /\ inflight' = [inflight EXCEPT ![i] =
                       [pc |-> "check_username", username |-> username,
                        email |-> email, password |-> password, role |-> role]]

RegCheckUsername(i) ==
    LET rq == inflight[i]
        args == Args(rq.username, rq.email, rq.password, NoToken) IN
    /\ rq.pc = "check_username"
    /\ IF register_check_username(Cur, rq.username)
       THEN /\ Reply("register", args, H(HTTP_409, "username exists", 0, Cur))
            /\ inflight' = [inflight EXCEPT ![i] = Idle]
       ELSE /\ Reply("register", args, H(0, "pending", 0, Cur))
            /\ inflight' = [inflight EXCEPT ![i].pc = "create"]

RegCreate(i) ==
    \E salt \in Salts :
        LET rq == inflight[i] IN
        /\ rq.pc = "create"
        /\ Reply("register", Args(rq.username, rq.email, rq.password, NoToken),
                 register_create(Cur, now, rq.username, rq.email, rq.password,
                                 rq.role, salt))
        /\ inflight' = [inflight EXCEPT ![i] = Idle]

NextReg ==
    \/ \E i \in Slots : RegStart(i)
    \/ \E i \in Slots : RegCheckUsername(i)
    \/ \E i \in Slots : RegCreate(i)

SpecReg == Init /\ [][NextReg]_vars

(* The token service driven alone *)
Deltas == {0, 1}

Issue(op, made) ==
    /\ made.ok => Cardinality(tokens \cup {made.val}) <= MaxTokens
    /\ tokens' = IF made.ok THEN tokens \cup {made.val} ELSE tokens
    /\ last' = IF made.ok
               THEN Last(op, Args(made.val.sub, None, None, made.val),
                         HTTP_200, made.val.sub, 0)
               ELSE Last(op, NoArgs, HTTP_500, made.err, 0)
    /\ UNCHANGED <<users, contacts, next_contact_id, cache, now, advances,
                   inflight>>

Verify(op, token, got) ==
    /\ last' = IF got.ok
               THEN Last(op, Args(token.sub, None, None, token), HTTP_200,
                         got.val, 0)
               ELSE Last(op, Args(token.sub, None, None, token), HTTP_500,
                         got.err, 0)
    /\ UNCHANGED <<users, contacts, next_contact_id, cache, tokens, now,
                   advances, inflight>>

IssueAccess ==
    \E sub \in Names, expires_delta \in Deltas :
        Issue("create_access_token",
              create_access_token(sub, expires_delta, now))

IssueEmail ==
    \E sub \in Names : Issue("create_email_token", create_email_token(sub, now))

IssueReset ==
    \E email \in Names :
        Issue("create_reset_token", create_reset_token(email, now))

VerifyAccess ==
    \E token \in Presented : Verify("jwt_decode", token, jwt_decode(token, now))

VerifyEmail ==
    \E token \in Presented :
        Verify("get_email_from_token", token, get_email_from_token(token, now))

VerifyReset ==
    \E token \in Presented :
        Verify("verify_reset_token", token, verify_reset_token(token, now))

AdvanceToken ==
    /\ advances < MaxAdvances
    /\ \E d \in {1, Seconds(1), EmailTokenLifetime} : Pass(d)

NextToken ==
    \/ IssueAccess
    \/ IssueEmail
    \/ IssueReset
    \/ VerifyAccess
    \/ VerifyEmail
    \/ VerifyReset
    \/ AdvanceToken

SpecToken == Init /\ [][NextToken]_vars

----------------------------------------------------------------------------
(* ContactService.search_contacts and upcoming_birthdays, called with a    *)
(* User row.  Text columns are sequences of characters, dates are          *)
(* <<year, month, day>>.                                                   *)

MaxDays == 16           \* days the calendar clock moves on
MaxQueryContacts == 2   \* contacts created when the queries are driven

Min(a, b) == IF a <= b THEN a ELSE b
Max(a, b) == IF a >= b THEN a ELSE b

LowerCase ==
    [c \in {"A", "B", "a", "b", "@", "1", "2"} |->
        IF c = "A" THEN "a" ELSE IF c = "B" THEN "b" ELSE c]

Lower(text) == [i \in 1..Len(text) |-> LowerCase[text[i]]]

(* column ILIKE '%search%': the lowered column contains the lowered search *)
(* string; NULL matches nothing.                                           *)
ilike(column, search) ==
    /\ column # None
    /\ \E i \in 0..(Len(column) - Len(search)) :
           SubSeq(Lower(column), i + 1, i + Len(search)) = Lower(search)

(* OFFSET skip LIMIT limit on a statement without ORDER BY: the database   *)
(* may return any rows of the selection, as many as the window holds.      *)
Pages(rows, skip, limit) ==
    {page \in SUBSET rows :
        Cardinality(page) = Min(limit, Max(0, Cardinality(rows) - skip))}

search_contacts_any_owner(cs, search, skip, limit, user) ==
    IF ~IsMapped(user) THEN Raise("ArgumentError")
    ELSE Ok(Pages({c \in cs :
                      \/ ilike(c.data.first_name, search)
                      \/ ilike(c.data.last_name, search)
                      \/ ilike(c.data.email, search)
                      \/ ilike(c.data.additional_data, search)
                      \/ ilike(c.data.phone_number, search)},
                  skip, limit))

search_contacts(cs, search, skip, limit, user) ==
    IF ~IsMapped(user) THEN Raise("ArgumentError")
    ELSE Ok(Pages({c \in cs :
                      /\ c.user_id = user.row.id
                      /\ \/ ilike(c.data.first_name, search)
                         \/ ilike(c.data.last_name, search)
                         \/ ilike(c.data.email, search)
                         \/ ilike(c.data.additional_data, search)
                         \/ ilike(c.data.phone_number, search)},
                  skip, limit))

(* The calendar of the database server: the clock starts at midnight of    *)
(* FirstDate, a day in January of a leap year.                             *)
FirstDate == <<2024, 1, 30>>

IsLeap(y) == (y % 4 = 0 /\ y % 100 # 0) \/ y % 400 = 0

DaysInMonth(y, m) ==
    IF m = 2 THEN (IF IsLeap(y) THEN 29 ELSE 28)
    ELSE IF m \in {4, 6, 9, 11} THEN 30 ELSE 31

(* The k-th month from the month of FirstDate, as <<year, month>> *)
MonthAt(k) ==
    <<FirstDate[1] + (FirstDate[2] - 1 + k) \div 12,
      ((FirstDate[2] - 1 + k) % 12) + 1>>

(* The date n days after the first day of the k-th month *)
RECURSIVE DateFrom(_, _)
DateFrom(k, n) ==
    LET ym == MonthAt(k)
        len == DaysInMonth(ym[1], ym[2])
    IN
    IF n < len THEN <<ym[1], ym[2], n + 1>> ELSE DateFrom(k + 1, n - len)

DaysRange == 0..366     \* ContactBirthdayRequest.days: ge=0, le=366

Calendar ==
    [n \in 0..(MaxDays + 367) |-> DateFrom(0, FirstDate[3] - 1 + n)]

(* The date n days after FirstDate: date + timedelta(days=n) *)
Date(n) == Calendar[n]

(* func.current_date() at time t *)
current_date(t) == t \div Seconds(SECONDS_PER_DAY)

extract(field, date) == IF field = "month" THEN date[2] ELSE date[3]

upcoming_birthdays_before(cs, days, user, t) ==
    LET today == Date(current_date(t))
        future_date == Date(current_date(t) + days)
    IN
    IF ~IsMapped(user) THEN Raise("ArgumentError")
    ELSE Ok({c \in cs :
                /\ c.user_id = user.row.id
                /\ \/ /\ extract("month", c.data.birthday)
                             = extract("month", today)
                      /\ extract("day", c.data.birthday) >= extract("day", today)
                   \/ /\ extract("month", c.data.birthday)
                             = extract("month", future_date)
                      /\ extract("day", c.data.birthday)
                             < extract("day", future_date)})

upcoming_birthdays_through(cs, days, user, t) ==
    LET today == Date(current_date(t))
        future_date == Date(current_date(t) + days)
        Ahead(date) ==
            (extract("month", date) - extract("month", today)) % 12
    IN
    IF ~IsMapped(user) THEN Raise("ArgumentError")
    ELSE Ok({c \in cs :
                /\ c.user_id = user.row.id
                /\ \/ /\ extract("month", c.data.birthday)
                             = extract("month", today)
                      /\ extract("day", c.data.birthday) >= extract("day", today)
                   \/ /\ extract("month", c.data.birthday)
                             = extract("month", future_date)
                      /\ extract("day", c.data.birthday)
                             <= extract("day", future_date)
                   \/ /\ Ahead(c.data.birthday) > 0
                      /\ Ahead(c.data.birthday) < Ahead(future_date)})

upcoming_birthdays(cs, days, user, t) ==
    LET today == Date(current_date(t))
        future_date == Date(current_date(t) + days)
    IN
    IF ~IsMapped(user) THEN Raise("ArgumentError")
    ELSE Ok({c \in cs :
                /\ c.user_id = user.row.id
                /\ \/ /\ extract("month", c.data.birthday)
                             = extract("month", today)
                      /\ extract("day", c.data.birthday) >= extract("day", today)
                   \/ /\ extract("month", c.data.birthday)
                             = extract("month", future_date)
                      /\ extract("day", c.data.birthday)
                             <= extract("day", future_date)})

(* Requests of the driven service *)
QueryBodies ==
    {[first_name |-> <<"A", "b">>, last_name |-> <<"B", "a">>,
      email |-> <<"a", "@", "b">>,
      phone_number |-> <<"1", "1", "1", "1", "1", "1">>,
      additional_data |-> None, birthday |-> <<2000, 2, 29>>],
     [first_name |-> <<"B", "b">>, last_name |-> <<"a", "a">>,
      email |-> <<"b", "@", "a">>,
      phone_number |-> <<"1", "1", "1", "1", "1", "2">>,
      additional_data |-> <<"A">>, birthday |-> <<1985, 12, 31>>]}

Searches == {<<>>, <<"A", "B">>}

Windows == {<<0, 100>>, <<1, 1>>}

QueryDays == {0, 30}

Mapped(row) == [type |-> "User", row |-> row, d |-> NoDict]

QueryLast(op, uid, input, result) ==
    [op |-> op, uid |-> uid, input |-> input, result |-> result]

(* Two identities are registered, nothing else has happened. *)
InitQuery ==
    /\ users = create_user(
                   create_user(<<>>, "a@x.io", "a@x.io",
                               get_password_hash("p", "s1"), "USER").val,
                   "b@x.io", "b@x.io", get_password_hash("p", "s1"), "USER").val
    /\ contacts = {}
    /\ next_contact_id = 1
    /\ cache = [k \in Names |-> NoEntry]
    /\ tokens = {}
    /\ now = 0
    /\ advances = 0
    /\ inflight = [i \in Slots |-> Idle]
    /\ last = QueryLast("none", 0, None, {})

QueryCreate ==
    \E i \in 1..Len(users), body \in QueryBodies :
        /\ next_contact_id <= MaxQueryContacts
        /\ contacts' = repo_create_contact(contacts, next_contact_id, body,
                                           Mapped(users[i])).val
        /\ next_contact_id' = next_contact_id + 1
        /\ last' = QueryLast("create_contact", i, body, {next_contact_id})
        /\ UNCHANGED <<users, cache, tokens, now, advances, inflight>>

QuerySearch ==
    \E i \in 1..Len(users), search \in Searches, w \in Windows :
        \E page \in search_contacts(contacts, search, w[1], w[2],
                                    Mapped(users[i])).val :
            /\ last' = QueryLast("search_contacts", i, search, page)
            /\ UNCHANGED <<users, contacts, next_contact_id, cache, tokens,
                           now, advances, inflight>>

QueryBirthdays ==
    \E i \in 1..Len(users), days \in QueryDays :
        /\ last' = QueryLast("upcoming_birthdays", i, days,
                       upcoming_birthdays(contacts, days, Mapped(users[i]),
                                          now).val)
        /\ UNCHANGED <<users, contacts, next_contact_id, cache, tokens, now,
                       advances, inflight>>

AdvanceDay ==
    /\ advances < MaxDays
    /\ now' = now + Seconds(SECONDS_PER_DAY)
    /\ advances' = advances + 1
    /\ cache' = Expire(cache, now + Seconds(SECONDS_PER_DAY))
    /\ last' = QueryLast("advance", 0, None, {})
    /\ UNCHANGED <<users, contacts, next_contact_id, tokens, inflight>>

NextQuery ==
    \/ QueryCreate
    \/ QuerySearch
    \/ QueryBirthdays
    \/ AdvanceDay

SpecQuery == InitQuery /\ [][NextQuery]_vars

----------------------------------------------------------------------------
(* UserService and ContactService driven directly, as the handlers drive    *)
(* them after the gate has handed over the ORM row of the requester.        *)

(* UserService.update_password with the hash the handler computed. *)
StoreUpdatePassword ==
    \E email \in Names, new_password \in Passwords, salt \in Salts :
        LET user == get_user_by_email(users, email) IN
        /\ user.id # 0
        /\ users' = update_password(users, email,
                                    get_password_hash(new_password, salt))
        /\ last' = QueryLast("update_password", user.id, email, {})
        /\ UNCHANGED <<contacts, next_contact_id, cache, tokens, now,
                       advances, inflight>>

StoreConfirmedEmail ==
    \E email \in Names :
        /\ users' = repo_confirmed_email(users, email)
        /\ last' = QueryLast("confirmed_email",
                             get_user_by_email(users, email).id, email, {})
        /\ UNCHANGED <<contacts, next_contact_id, cache, tokens, now,
                       advances, inflight>>

StoreGetContacts ==
    \E i \in 1..Len(users) :
        /\ last' = QueryLast("get_contacts", i, None,
                       {c.id : c \in get_contacts(contacts,
                                                  Mapped(users[i])).val})
        /\ UNCHANGED <<users, contacts, next_contact_id, cache, tokens, now,
                       advances, inflight>>

StoreUpdateContact ==
    \E i \in 1..Len(users), contact_id \in 1..MaxQueryContacts,
       body \in QueryBodies :
        LET r == repo_update_contact(contacts, contact_id, body,
                                     Mapped(users[i])) IN
        /\ contacts' = r.cs
        /\ last' = QueryLast("update_contact", i, contact_id,
                             {c.id : c \in r.found.val})
        /\ UNCHANGED <<users, next_contact_id, cache, tokens, now, advances,
                       inflight>>

StoreRemoveContact ==
    \E i \in 1..Len(users), contact_id \in 1..MaxQueryContacts :
        LET r == repo_remove_contact(contacts, contact_id,
                                     Mapped(users[i])) IN
        /\ contacts' = r.cs
        /\ last' = QueryLast("remove_contact", i, contact_id,
                             {c.id : c \in r.found.val})
        /\ UNCHANGED <<users, next_contact_id, cache, tokens, now, advances,
                       inflight>>

NextStore ==
    \/ QueryCreate
    \/ StoreGetContacts
    \/ StoreUpdateContact
    \/ StoreRemoveContact
    \/ StoreUpdatePassword
    \/ StoreConfirmedEmail

SpecStore == InitQuery /\ [][NextStore]_vars

----------------------------------------------------------------------------
(* Properties *)

(* The identity a presented token resolves to at the gate: the token       *)
(* verifies and its subject is the username of a stored identity.          *)
Bearer(token) ==
    LET payload == jwt_decode(token, now) IN
    IF payload.ok THEN get_user_by_username(users, payload.val) ELSE NoUser

Same(r) ==
    /\ r.S.users = users
    /\ r.S.contacts = contacts
    /\ r.S.cache = cache

(* C1: a read-one, update or delete by identity A with the id of a contact *)
(* owned by another identity B returns 404 and leaves the contact as it    *)
(* is.                                                                     *)
C1_CrossOwnerNotFound ==
    \A token \in Presented, c \in contacts, body \in ContactData :
        (Bearer(token).id # 0 /\ c.user_id # Bearer(token).id) =>
            /\ read_contact(Cur, now, token, c.id).status = HTTP_404
            /\ update_contact(Cur, now, token, c.id, body).status = HTTP_404
            /\ update_contact(Cur, now, token, c.id, body).S.contacts = contacts
            /\ remove_contact(Cur, now, token, c.id).status = HTTP_404
            /\ remove_contact(Cur, now, token, c.id).S.contacts = contacts

(* C2: login never issues an access token for an identity whose confirmed *)
(* flag is false: every access token in existence names a confirmed       *)
(* identity, and in every state a login answered 200 is a login of a      *)
(* confirmed identity and adds no access token for an unconfirmed one.    *)
C2_NoTokenForUnconfirmed ==
    /\ \A k \in tokens :
        k.kind = "access" => get_user_by_username(users, k.sub).confirmed
    /\ \A email \in Names, password \in Passwords :
        LET r == login_user(Cur, now, email, password) IN
        /\ r.status = HTTP_200 => get_user_by_email(users, email).confirmed
        /\ \A k \in r.S.tokens \ tokens :
            k.kind = "access" => get_user_by_username(users, k.sub).confirmed

(* A login with the right password of a stored, unconfirmed identity was   *)
(* answered, and not with a token.                                         *)
C2_Witness ==
    /\ last.op = "login"
    /\ last.status # HTTP_200
    /\ get_user_by_email(users, last.email).id # 0
    /\ ~get_user_by_email(users, last.email).confirmed
    /\ verify_password(last.password,
                       get_user_by_email(users, last.email).hashed_password)

Final(l) == l.op = "register" /\ l.status # 0

(* C3: a register whose username and e-mail no stored identity has adds    *)
(* exactly one identity, unconfirmed, and returns it; a register whose     *)
(* e-mail or username a stored identity has is answered 409 and leaves the *)
(* users table unchanged.                                                  *)
C3_RegisterContract ==
    [][ Final(last') =>
          IF UniqueViolation(users, last'.username, last'.email)
          THEN last'.status = HTTP_409 /\ users' = users
          ELSE /\ last'.status = HTTP_201
               /\ Len(users') = Len(users) + 1
               /\ SubSeq(users', 1, Len(users)) = users
               /\ last'.uid = Len(users')
               /\ users'[Len(users')].username = last'.username
               /\ users'[Len(users')].email = last'.email
               /\ ~users'[Len(users')].confirmed ]_vars

(* C4: no two stored identities share an e-mail or a username, and every   *)
(* register request, however it interleaves with others, ends with a       *)
(* created identity or with 409.                                           *)
C4_UniqueAndTyped ==
    /\ \A i, j \in 1..Len(users) :
        i # j => /\ users[i].username # users[j].username
                 /\ users[i].email # users[j].email
    /\ Final(last) => last.status \in {HTTP_201, HTTP_409}

Issuers(sub) ==
    <<create_access_token(sub, 0, now), create_email_token(sub, now),
      create_reset_token(sub, now)>>

VerifyKind(kind, token, t) ==
    CASE kind = "access" -> jwt_decode(token, t)
      [] kind = "email" -> get_email_from_token(token, t)
      [] kind = "reset" -> verify_reset_token(token, t)

KindAt(i) == <<"access", "email", "reset">>[i]

(* C5: for each token kind and every subject, a token issued for the       *)
(* subject verifies to that subject at every time before its expiry: at    *)
(* the time of issue, and later for the tokens issued earlier.             *)
C5_RoundTrip ==
    /\ \A sub \in Names, i \in 1..3 :
        /\ Issuers(sub)[i].ok
        /\ VerifyKind(KindAt(i), Issuers(sub)[i].val, now) = Ok(sub)
    /\ \A k \in tokens :
        now < Seconds(k.exp) => VerifyKind(k.kind, k, now) = Ok(k.sub)

Invalid(r) == ~r.ok \/ r.val = None

(* C6: at every time at or after a token's expiry, the instant of expiry   *)
(* included, verification returns Invalid, and the token resolves to no    *)
(* subject at the gate, in confirm-email or in reset-password.             *)
C6_InvalidFromExpiry ==
    \A k \in tokens :
        now >= Seconds(k.exp) =>
            /\ Invalid(VerifyKind(k.kind, k, now))
            /\ get_current_user(Cur, now, k).status = HTTP_401
            /\ confirmed_email(Cur, now, k).status # HTTP_200
            /\ \A new_password \in Passwords, salt \in Salts :
                reset_password(Cur, now, k, new_password, salt).status
                    # HTTP_200

Fails(token) == TokenClass(token, now) # "valid"

(* C7: every authenticated endpoint, presented with a token that fails     *)
(* verification, answers 401 and changes neither store nor cache.          *)
C7_BadTokenRejected ==
    \A token \in Presented :
        Fails(token) =>
            \A cid \in ContactIds, body \in ContactData, flag \in BOOLEAN :
                \A r \in {me(Cur, now, token, flag),
                          update_avatar_user(Cur, now, token, flag),
                          read_contacts(Cur, now, token),
                          read_contact(Cur, now, token, cid),
                          create_contact(Cur, now, token, body),
                          update_contact(Cur, now, token, cid, body),
                          remove_contact(Cur, now, token, cid),
                          api_search_contacts(Cur, now, token),
                          api_upcoming_birthdays(Cur, now, token)} :
                    r.status = HTTP_401 /\ Same(r)

(* A delete presented with an expired token was answered 401 while a       *)
(* contact and a cache entry existed.                                      *)
C7_Witness ==
    /\ last.op = "remove_contact"
    /\ last.tok = "expired"
    /\ last.status = HTTP_401
    /\ contacts # {}
    /\ \E k \in Names : cache[k].present

(* C8: an avatar update whose token resolves to an identity that is not    *)
(* ADMIN answers 403 and leaves the users table, so the avatar, unchanged. *)
C8_NonAdminForbidden ==
    \A token \in Presented, upload_ok \in BOOLEAN :
        (Bearer(token).id # 0 /\ Bearer(token).role # "ADMIN") =>
            /\ update_avatar_user(Cur, now, token, upload_ok).status = HTTP_403
            /\ update_avatar_user(Cur, now, token, upload_ok).S.users = users

(* C9: on a by-e-mail cache miss login answers InvalidCredentials when no  *)
(* identity has the e-mail or the password does not verify, NotAuthorized  *)
(* when the identity is unconfirmed (either of the two when both apply),   *)
(* and otherwise writes the by-e-mail cache entry and returns an access    *)
(* token for the identity's username.                                      *)
C9_LoginOnMiss ==
    \A email \in Names, password \in Passwords :
        LET r == login_user(Cur, now, email, password)
            user == get_user_by_email(users, email)
            wrong == user.id = 0
                     \/ ~verify_password(password, user.hashed_password)
            unconfirmed == user.id # 0 /\ ~user.confirmed
        IN
        ~Truthy(redis_get(cache, email, now)) =>
            IF wrong \/ unconfirmed
            THEN /\ r.status = HTTP_401
                 /\ r.S.tokens = tokens
                 /\ r.detail \in
                      (IF wrong THEN {"API_ERROR_WRONG_PASSWORD"} ELSE {})
                      \cup (IF unconfirmed
                            THEN {"API_ERROR_USER_NOT_AUTHORIZED"} ELSE {})
            ELSE /\ r.status = HTTP_200
                 /\ Truthy(redis_get(r.S.cache, email, now))
                 /\ create_access_token(user.username, 0, now).val
                        \in r.S.tokens

(* C10: login with a wrong password for a stored identity, confirmed or    *)
(* not, is answered with the wrong-password rejection.                     *)
C10_WrongPassword ==
    \A email \in Names, password \in Passwords :
        LET user == get_user_by_email(users, email) IN
        (user.id # 0 /\ ~verify_password(password, user.hashed_password)) =>
            /\ login_user(Cur, now, email, password).status = HTTP_401
            /\ login_user(Cur, now, email, password).detail
                   = "API_ERROR_WRONG_PASSWORD"

Unchanged(r) ==
    /\ Same(r)
    /\ r.S.next_contact_id = next_contact_id
    /\ r.S.tokens = tokens

(* C11: confirm-email with a token that verifies and whose subject is the  *)
(* e-mail of a stored identity answers 200 and sets confirmed for exactly  *)
(* that identity (nothing changes when it is confirmed already); with a    *)
(* token that fails verification or names no identity it answers 422 or    *)
(* 400 and changes nothing.                                                *)
C11_ConfirmEmail ==
    \A token \in Presented :
        LET r == confirmed_email(Cur, now, token)
            email == get_email_from_token(token, now)
            user == get_user_by_email(users, email.val)
        IN
        IF ~email.ok \/ user.id = 0
        THEN r.status \in {HTTP_400, HTTP_422} /\ Unchanged(r)
        ELSE /\ r.status = HTTP_200
             /\ r.S.users = [i \in 1..Len(users) |->
                    IF i = user.id THEN [users[i] EXCEPT !.confirmed = TRUE]
                    ELSE users[i]]
             /\ user.confirmed => r.S.users = users
             /\ r.S.contacts = contacts /\ r.S.cache = cache
             /\ r.S.tokens = tokens

(* A confirmation went through while a second identity stayed unconfirmed. *)
C11_Witness ==
    /\ last.op = "confirmed_email"
    /\ last.status = HTTP_200
    /\ last.detail = "confirmed"
    /\ Len(users) = 2
    /\ users[last.uid].confirmed
    /\ \E i \in 1..Len(users) : ~users[i].confirmed

(* C12: reset-password with a token that fails verification answers 400,  *)
(* with a token that verifies but names no stored identity 404, in both    *)
(* cases without a change to any password hash; with a reset token that    *)
(* verifies for a stored identity it answers 200 and the stored hash is    *)
(* the hash of the new password.                                           *)
C12_ResetPassword ==
    \A token \in Presented, new_password \in Passwords, salt \in Salts :
        LET r == reset_password(Cur, now, token, new_password, salt)
            decoded == jwt_decode(token, now)
            user == get_user_by_email(users, decoded.val)
        IN
        IF ~decoded.ok THEN r.status = HTTP_400 /\ r.S.users = users
        ELSE IF user.id = 0 THEN r.status = HTTP_404 /\ r.S.users = users
        ELSE token.kind = "reset" =>
                /\ r.status = HTTP_200
                /\ r.S.users = update_password(users, user.email,
                                   get_password_hash(new_password, salt))

(* The state a successful reset leaves: reset_password's only write is     *)
(* update_password with the hash of the new password.                      *)
AfterReset(S, email, new_password, salt) ==
    [S EXCEPT !.users = update_password(S.users, email,
                            get_password_hash(new_password, salt))]

Issued(r, username, t) ==
    /\ r.status = HTTP_200
    /\ create_access_token(username, 0, t).val \in r.S.tokens

(* C13: after a successful reset for a confirmed identity without a live   *)
(* by-e-mail cache entry, login with the old password is answered with the *)
(* wrong-password rejection and login with the new password with an access *)
(* token.                                                                  *)
C13_LoginAfterReset ==
    \A i \in 1..Len(users), old \in Passwords, new \in Passwords,
       salt \in Salts :
        LET user == users[i]
            S1 == AfterReset(Cur, user.email, new, salt)
        IN
        (/\ user.confirmed
         /\ ~Truthy(redis_get(cache, user.email, now))
         /\ verify_password(old, user.hashed_password)
         /\ old # new) =>
            /\ login_user(S1, now, user.email, old).status = HTTP_401
            /\ login_user(S1, now, user.email, old).detail
                   = "API_ERROR_WRONG_PASSWORD"
            /\ Issued(login_user(S1, now, user.email, new), user.username, now)

(* C14: with a by-e-mail cache entry written before the reset, login with  *)
(* the old password succeeds at every time before the entry's 3600 s are   *)
(* over and is rejected from then on.                                      *)
C14_StaleCacheLogin ==
    \A i \in 1..Len(users), old \in Passwords, new \in Passwords,
       salt \in Salts :
        LET user == users[i]
            written == redis_setex(cache, user.email, CACHE_TTL,
                                   login_user_data(user), now)
            S1 == AfterReset([Cur EXCEPT !.cache = written], user.email, new,
                             salt)
        IN
        (/\ user.confirmed
         /\ verify_password(old, user.hashed_password)
         /\ old # new) =>
            /\ \A d \in {0, 1, Seconds(CACHE_TTL) - 1} :
                Issued(login_user(S1, now + d, user.email, old),
                       user.username, now + d)
            /\ \A d \in {Seconds(CACHE_TTL), Seconds(CACHE_TTL) + 1} :
                login_user(S1, now + d, user.email, old).status = HTTP_401

(* C15: in both namespaces a get within 3600 s of the last put of a key    *)
(* returns the snapshot put, and a get once the 3600 s are over, with no   *)
(* put in between, returns a miss.                                         *)
C15_CacheTtl ==
    \A key \in Names, i \in 1..Len(users) :
        LET by_email == login_user_data(users[i])
            by_username == gate_user_data(users[i])
            put == cache_user(cache, key, by_email, now)
            set == redis_setex(cache, key, CACHE_TTL, by_username, now)
        IN
        /\ put.ok
        /\ \A d \in {0, 1, Seconds(CACHE_TTL) - 1} :
            /\ get_cached_user(put.val, key, now + d) = Ok(by_email)
            /\ redis_get(set, key, now + d) = by_username
        /\ \A d \in {Seconds(CACHE_TTL), Seconds(CACHE_TTL) + 1} :
            /\ get_cached_user(put.val, key, now + d) = Ok(NoDict)
            /\ redis_get(set, key, now + d) = NoDict


(* The answers of the seven contact operations to one presented token.     *)
ContactAnswers(token) ==
    {read_contacts(Cur, now, token),
     api_search_contacts(Cur, now, token),
     api_upcoming_birthdays(Cur, now, token)}
    \cup {read_contact(Cur, now, token, cid) : cid \in ContactIds}
    \cup {create_contact(Cur, now, token, body) : body \in ContactData}
    \cup {update_contact(Cur, now, token, cid, body) :
              cid \in ContactIds, body \in ContactData}
    \cup {remove_contact(Cur, now, token, cid) : cid \in ContactIds}

(* C16: every contact operation (read-one, read-list, search, birthday     *)
(* query, create, update, delete) presented with a token that verifies for *)
(* a stored identity answers with a scoped result (200, 201, 204) or 404,  *)
(* and with a token that fails verification 401, whether or not the        *)
(* identity's by-username cache entry is live.                             *)
C16_ContactOutcomes ==
    \A token \in Presented :
        \A r \in ContactAnswers(token) :
            /\ Bearer(token).id # 0 =>
                   r.status \in {HTTP_200, HTTP_201, HTTP_204, HTTP_404}
            /\ Fails(token) => r.status = HTTP_401


MonthDay(date) == <<extract("month", date), extract("day", date)>>

(* C17: whatever a search or a birthday query of identity A returns is a   *)
(* set of contacts owned by A, for every search text, every window and     *)
(* every horizon, also when a contact of another identity matches the text *)
(* or the date range; the two endpoints themselves hand out no contact.    *)
C17_OwnedOnly ==
    /\ \A i \in 1..Len(users) :
        /\ \A search \in Searches, w \in Windows :
               \A page \in search_contacts(contacts, search, w[1], w[2],
                                           Mapped(users[i])).val :
                   \A c \in page : c.user_id = users[i].id
        /\ \A days \in DaysRange :
               \A c \in upcoming_birthdays(contacts, days, Mapped(users[i]),
                                           now).val :
                   c.user_id = users[i].id
    /\ \A token \in Presented :
        /\ api_search_contacts(Cur, now, token).result = {}
        /\ api_upcoming_birthdays(Cur, now, token).result = {}

(* A search returned a contact while a contact of another identity matched *)
(* the same text.                                                          *)
C17_Witness ==
    /\ last.op = "search_contacts"
    /\ last.result # {}
    /\ \E c \in contacts :
           c.user_id # last.uid /\ ilike(c.data.first_name, last.input)

C19_BeyondExcluded ==
    \A c \in contacts, days \in DaysRange :
        MonthDay(c.data.birthday)
            = MonthDay(Date(current_date(now) + days + 1)) =>
            c \notin upcoming_birthdays(contacts, days,
                                        Mapped(users[c.user_id]), now).val


(* The gate's answer when the by-username entry is absent. *)
OnMiss(token) ==
    get_current_user([Cur EXCEPT !.cache = [k \in Names |-> NoEntry]], now,
                     token)

(* The failing command is reached: the get always, the setex on a miss.    *)
Attempted(token, fault) ==
    fault = "setex" =>
        /\ Bearer(token).id # 0
        /\ ~Truthy(redis_get(cache, Bearer(token).username, now))

(* C20: a request during which a cache get or put fails does not fail:     *)
(* login is not answered 500 when its cache get fails, and the gate        *)
(* resolves the token to the same status and identity as on a cache miss   *)
(* when its get or its put fails.                                          *)
C20_CacheFailureTolerated ==
    /\ \A email \in Names, password \in Passwords :
           ~get_cached_user(cache, email, now).ok =>
               login_user(Cur, now, email, password).status # HTTP_500
    /\ \A token \in Presented, fault \in RedisFaults :
           Attempted(token, fault) =>
               LET r == get_current_user_faulty(Cur, now, token, fault) IN
               /\ r.status = OnMiss(token).status
               /\ r.user = OnMiss(token).user

(* The gate takes a token exactly when a stored identity has the token's   *)
(* subject as its username.                                                *)
GateTakes(k) ==
    get_current_user(Cur, now, k).status = HTTP_200
        <=> get_user_by_username(users, k.sub).id # 0

(* C21: verification does not tell the token kinds apart.  For every       *)
(* unexpired token in existence whose subject e is the e-mail of a stored  *)
(* identity: a confirmation token is taken by reset-password (200), a      *)
(* reset token is taken by confirm-email (200), and the gate takes either  *)
(* exactly when a stored identity has username e.                          *)
C21_KindsInterchangeable ==
    \A k \in tokens :
        (TokenClass(k, now) = "valid"
             /\ get_user_by_email(users, k.sub).id # 0) =>
            /\ k.kind = "email" =>
                   \A new_password \in Passwords, salt \in Salts :
                       reset_password(Cur, now, k, new_password, salt).status
                           = HTTP_200
            /\ k.kind = "reset" => confirmed_email(Cur, now, k).status = HTTP_200
            /\ k.kind \in {"email", "reset"} => GateTakes(k)

(* The current state with an empty cache. *)
Cold == [Cur EXCEPT !.cache = [k \in Names |-> NoEntry]]

(* The id, username, e-mail and role a handler can read from what the gate *)
(* handed to it; a key the dict does not have reads as None.               *)
Identity(u) ==
    IF u.type = "User"
    THEN [id |-> u.row.id, username |-> u.row.username, email |-> u.row.email,
          role |-> u.row.role]
    ELSE [id |-> IF "id" \in u.d.keys THEN u.d.id ELSE 0,
          username |-> IF "username" \in u.d.keys THEN u.d.username ELSE None,
          email |-> IF "email" \in u.d.keys THEN u.d.email ELSE None,
          role |-> None]

(* C22: for a token that verifies for a stored identity, the gate hands on *)
(* the same id, username, e-mail and role with the by-username entry       *)
(* present as with the cache empty, and the admin check, the contact list  *)
(* and the read of one contact end the same way in both cases.             *)
C22_HitEqualsMiss ==
    \A token \in Presented :
        Bearer(token).id # 0 =>
            /\ Identity(get_current_user(Cur, now, token).user)
                   = Identity(get_current_user(Cold, now, token).user)
            /\ get_current_admin_user(Cur, now, token).status
                   = get_current_admin_user(Cold, now, token).status
            /\ read_contacts(Cur, now, token).status
                   = read_contacts(Cold, now, token).status
            /\ read_contacts(Cur, now, token).result
                   = read_contacts(Cold, now, token).result
            /\ \A cid \in ContactIds :
                   read_contact(Cur, now, token, cid).status
                       = read_contact(Cold, now, token, cid).status

Positions(io, call) == {i \in 1..Len(io) : io[i] = call}

(* C23: once the token has verified the gate asks the cache first: on a    *)
(* by-username hit it resolves the identity without a read of the store,   *)
(* and on a miss the store is read by username only after the cache get.   *)
C23_CacheFirst ==
    \A token \in Presented :
        LET io == get_current_user_io(Cur, now, token)
            reads == Positions(io, "store.get_user_by_username")
            gets == Positions(io, "redis.get")
        IN
        jwt_decode(token, now).ok =>
            /\ gets # {}
            /\ \A i \in reads : \E j \in gets : j < i
            /\ Truthy(redis_get(cache, token.sub, now)) => reads = {}

(* The current state with the by-e-mail entry cache_user writes for a user *)
WithLoginEntry(user) ==
    [Cur EXCEPT !.cache = redis_setex(cache, user.email, CACHE_TTL,
                                      login_user_data(user), now)]

(* C24: on a by-e-mail cache hit login decides from the cached hash alone: *)
(* a matching password gets an access token for the cached username, any   *)
(* other is rejected with InvalidCredentials, the users table is left as   *)
(* it is and the confirmed flag plays no part.                             *)
C24_HitDecidesFromCache ==
    \A i \in 1..Len(users), password \in Passwords :
        LET user == users[i]
            r == login_user(WithLoginEntry(user), now, user.email, password)
        IN
        /\ r.S.users = users
        /\ IF verify_password(password, user.hashed_password)
           THEN Issued(r, user.username, now)
           ELSE r.status = HTTP_401 /\ r.detail = "API_ERROR_WRONG_PASSWORD"

(* The entry under key was written at time t: it lives until t + 3600 s.   *)
Refreshed(c, key, t) ==
    c[key].present /\ c[key].expire_at = t + Seconds(CACHE_TTL)

(* C25: every identity resolution that succeeds, on a hit as on a miss,    *)
(* leaves the by-username entry with a lifetime of 3600 s from that        *)
(* moment, and every login that succeeds, with or without a by-e-mail      *)
(* entry in place, leaves the by-e-mail entry so; checked at the present   *)
(* time and at later times within an entry's lifetime.                     *)
C25_SuccessRefreshes ==
    \A d \in {0, 1, Seconds(CACHE_TTL) - 1} :
        /\ \A token \in Presented :
               LET g == get_current_user(Cur, now + d, token) IN
               g.status = HTTP_200 => Refreshed(g.S.cache, token.sub, now + d)
        /\ \A i \in 1..Len(users), password \in Passwords :
               \A S \in {Cur, WithLoginEntry(users[i])} :
                   LET r == login_user(S, now + d, users[i].email, password) IN
                   r.status = HTTP_200 =>
                       Refreshed(r.S.cache, users[i].email, now + d)

(* C26: the two namespaces do not touch each other, also when a username   *)
(* and an e-mail are the same string: the put of an identity resolution    *)
(* leaves what Redis answers to the by-e-mail get of every e-mail as it    *)
(* was, and the put of a login leaves what it answers to the by-username   *)
(* get of every username as it was.                                        *)
C26_NamespacesIndependent ==
    /\ \A token \in Presented, e \in Names :
           by_email_get(get_current_user(Cur, now, token).S.cache, e, now)
               = by_email_get(cache, e, now)
    /\ \A i \in 1..Len(users), u \in Names :
           LET put == cache_user(cache, users[i].email,
                                 login_user_data(users[i]), now)
           IN
           put.ok => by_username_get(put.val, u, now)
                         = by_username_get(cache, u, now)

(* C27: every live cache entry holds a snapshot with at least the keys     *)
(* username, email and hashed_password, so that a login reading the entry  *)
(* has a hash to verify against.                                           *)
C27_SnapshotHasHash ==
    \A key \in Names :
        Live(cache[key], now) =>
            {"username", "email", "hashed_password"} \subseteq cache[key].val.keys

(* C28: with a by-e-mail cache entry written before the reset, login with  *)
(* the new password is rejected with InvalidCredentials at every time      *)
(* before the entry's 3600 s are over, although the store holds the new    *)
(* hash, and succeeds from then on.                                        *)
C28_NewPasswordAfterExpiry ==
    \A i \in 1..Len(users), old \in Passwords, new \in Passwords,
       salt \in Salts :
        LET user == users[i]
            S1 == AfterReset(WithLoginEntry(user), user.email, new, salt)
        IN
        (/\ user.confirmed
         /\ verify_password(old, user.hashed_password)
         /\ old # new) =>
            /\ \A d \in {0, 1, Seconds(CACHE_TTL) - 1} :
                /\ login_user(S1, now + d, user.email, new).status = HTTP_401
                /\ login_user(S1, now + d, user.email, new).detail
                       = "API_ERROR_WRONG_PASSWORD"
            /\ \A d \in {Seconds(CACHE_TTL), Seconds(CACHE_TTL) + 1} :
                Issued(login_user(S1, now + d, user.email, new),
                       user.username, now + d)

(* The tokens a reset request for e-mail e may carry: the unexpired tokens *)
(* in existence with subject e and a reset token as create_reset_token     *)
(* builds it.                                                              *)
ResetTokens(e) ==
    {k \in tokens : TokenClass(k, now) = "valid" /\ k.sub = e}
    \cup {jwt_encode("reset", e, now + Seconds(RESET_TOKEN_EXPIRY), NoIat)}

(* C30: two reset-password requests for the same stored identity, each     *)
(* with a token that verifies, both answer 200 in either order, the stored *)
(* hash ends as the hash of the request that wrote last, and every other   *)
(* identity is left as it was.                                             *)
C30_LastResetWins ==
    \A i \in 1..Len(users), p1 \in Passwords, p2 \in Passwords,
       salt \in Salts :
        \A k1 \in ResetTokens(users[i].email),
           k2 \in ResetTokens(users[i].email) :
            LET r1 == reset_password(Cur, now, k1, p1, salt)
                r2 == reset_password(r1.S, now, k2, p2, salt)
            IN
            /\ r1.status = HTTP_200
            /\ r2.status = HTTP_200
            /\ r2.S.users = update_password(users, users[i].email,
                                            get_password_hash(p2, salt))

(* What a reset may change in the users table: the hash of the rows whose   *)
(* e-mail is the subject, and nothing else.                                 *)
OnlyHashOf(before, after, email) ==
    /\ Len(after) = Len(before)
    /\ \A i \in 1..Len(before) :
          /\ after[i].id = before[i].id
          /\ after[i].username = before[i].username
          /\ after[i].email = before[i].email
          /\ after[i].role = before[i].role
          /\ after[i].confirmed = before[i].confirmed
          /\ after[i].avatar = before[i].avatar
          /\ before[i].email # email
                 => after[i].hashed_password = before[i].hashed_password

(* C31: a reset that succeeds changes only the password hash of the         *)
(* identity whose e-mail is the token's subject: the other columns of that  *)
(* row, every other row, every contact and every cache entry stay as they   *)
(* were.  Stated for the handler's answer in every state and for each       *)
(* UserService.update_password step, the one write a successful reset does. *)
C31_ResetFrame ==
    [][/\ \A token \in Presented, new_password \in Passwords, salt \in Salts :
            LET r == reset_password(Cur, now, token, new_password, salt) IN
            r.status = HTTP_200
                => /\ OnlyHashOf(users, r.S.users, token.sub)
                   /\ r.S.contacts = contacts
                   /\ r.S.cache = cache
       /\ last'.op = "update_password"
            => /\ OnlyHashOf(users, users', last'.input)
               /\ users'[last'.uid].hashed_password.pw \in Passwords
               /\ contacts' = contacts
               /\ cache' = cache]_vars

(* A password was replaced while contacts exist and the other identity is   *)
(* confirmed.                                                               *)
C31_Witness ==
    /\ last.op = "update_password"
    /\ users[last.uid].hashed_password = get_password_hash("q", "s1")
    /\ contacts # {}
    /\ \E i \in 1..Len(users) :
          /\ i # last.uid
          /\ users[i].confirmed
          /\ users[i].hashed_password = get_password_hash("p", "s1")

(* The users table after a handler ran, against the table before it: rows   *)
(* are only appended, and a new row is unconfirmed.                         *)
Appended(after) ==
    /\ Len(after) >= Len(users)
    /\ \A i \in (Len(users) + 1)..Len(after) : ~after[i].confirmed

FlagsKept(after) ==
    /\ Appended(after)
    /\ \A i \in 1..Len(users) : after[i].confirmed = users[i].confirmed

(* C32: a confirmed flag that is true stays true under every operation      *)
(* (register, login, confirm-email, request-email, forgot and reset         *)
(* password, avatar, the contact operations), and a flag turns true only    *)
(* in a confirm-email whose token verifies and has the e-mail of that       *)
(* identity as its subject.                                                 *)
C32_ConfirmedMonotone ==
    /\ \A username \in Names, email \in Names, password \in RegPasswords,
          role \in Roles, salt \in Salts :
          FlagsKept(register_user(Cur, now, username, email, password, role,
                                  salt).S.users)
    /\ \A email \in Names :
          /\ \A password \in Passwords :
                FlagsKept(login_user(Cur, now, email, password).S.users)
          /\ FlagsKept(request_email(Cur, now, email).S.users)
          /\ FlagsKept(forgot_password(Cur, now, email).S.users)
    /\ \A token \in tokens \cup {Malformed} :
          /\ \A upload_ok \in BOOLEAN :
                FlagsKept(update_avatar_user(Cur, now, token,
                                             upload_ok).S.users)
          /\ FlagsKept(me(Cur, now, token, FALSE).S.users)
          /\ FlagsKept(read_contacts(Cur, now, token).S.users)
          /\ FlagsKept(create_contact(Cur, now, token, "x").S.users)
          /\ FlagsKept(read_contact(Cur, now, token, 1).S.users)
          /\ FlagsKept(remove_contact(Cur, now, token, 1).S.users)
          /\ FlagsKept(update_contact(Cur, now, token, 1, "y").S.users)
    /\ \A token \in Presented :
          /\ \A new_password \in Passwords, salt \in Salts :
                FlagsKept(reset_password(Cur, now, token, new_password,
                                         salt).S.users)
          /\ LET after == confirmed_email(Cur, now, token).S.users
                 subject == jwt_decode(token, now)
             IN
             /\ Appended(after)
             /\ \A i \in 1..Len(users) :
                   /\ users[i].confirmed => after[i].confirmed
                   /\ after[i].confirmed /\ ~users[i].confirmed
                          => subject.ok /\ subject.val = users[i].email

(* A confirmed identity went through a later request-email and is still     *)
(* confirmed, while another identity is not; a token for that other         *)
(* identity's e-mail is out.                                                *)
C32_Witness ==
    /\ last.op = "request_email"
    /\ last.uid # 0
    /\ users[last.uid].confirmed
    /\ \E i \in 1..Len(users), token \in tokens :
          /\ ~users[i].confirmed
          /\ token.sub = users[i].email

(* The owner of the stored contact with this id, 0 when there is none. *)
OwnerOf(cs, id) ==
    IF \E c \in cs : c.id = id THEN (CHOOSE c \in cs : c.id = id).user_id
    ELSE 0

OwnersKept(before, after) ==
    \A c \in after : OwnerOf(before, c.id) \in {0, c.user_id}

(* A token with which the gate resolves the stored identity i. *)
TokenOf(i) == create_email_token(users[i].username, now).val

(* C33: every stored contact has exactly one owner, fixed when it was       *)
(* created: an update, by any identity with any payload, changes no         *)
(* contact's owner, and a delete that succeeds removes the one contact      *)
(* with the given id that the requester owns, and nothing else.             *)
C33_OwnerFixed ==
    [][/\ \A c \in contacts : c.user_id \in 1..Len(users)
       /\ \A c, d \in contacts : c.id = d.id => c = d
       /\ OwnersKept(contacts, contacts')
       /\ \A i \in 1..Len(users), cid \in 1..MaxQueryContacts :
             /\ \A body \in QueryBodies :
                   LET r == update_contact(Cur, now, TokenOf(i), cid, body) IN
                   /\ OwnersKept(contacts, r.S.contacts)
                   /\ {c.id : c \in r.S.contacts} = {c.id : c \in contacts}
             /\ LET r == remove_contact(Cur, now, TokenOf(i), cid) IN
                /\ r.S.contacts \subseteq contacts
                /\ contacts \ r.S.contacts
                       = {c \in contacts :
                              c.id = cid /\ c.user_id = users[i].id}
       /\ last'.op = "update_contact"
             => {c.id : c \in contacts'} = {c.id : c \in contacts}
       /\ last'.op = "remove_contact"
             => /\ contacts' \subseteq contacts
                /\ contacts \ contacts'
                       = {c \in contacts :
                              c.id = last'.input /\ c.user_id = last'.uid}
                /\ Cardinality(contacts \ contacts') = Cardinality(last'.result)
                /\ Cardinality(last'.result) <= 1]_vars

(* A delete succeeded and the requester's other contact is still stored. *)
C33_Witness ==
    /\ last.op = "remove_contact"
    /\ last.result # {}
    /\ \E c \in contacts : c.user_id = last.uid /\ c.id \notin last.result

GateRank(state) ==
    CASE state = "TokenPresented" -> 1
      [] state = "TokenVerified" -> 2
      [] state = "IdentityResolved" -> 3
      [] state \in {"Authorized", "Rejected"} -> 4
      [] OTHER -> 0

InOrder(run) ==
    /\ Len(run) >= 2
    /\ run[1] = "TokenPresented"
    /\ \A k \in 1..Len(run) : GateRank(run[k]) # 0
    /\ \A k \in 1..(Len(run) - 1) :
          /\ GateRank(run[k]) < 4
          /\ GateRank(run[k + 1]) = 4 \/ GateRank(run[k + 1]) = GateRank(run[k]) + 1

(* C34: every run of the gate, plain or admin-only, passes TokenPresented,  *)
(* TokenVerified, IdentityResolved in this order and ends in exactly one    *)
(* terminal state, Authorized or Rejected; it ends Authorized only after    *)
(* the token verified and its subject was resolved to an identity.          *)
C34_GateOrder ==
    \A token \in Presented, admin \in BOOLEAN :
        LET run == gate_run(Cur, now, token, admin) IN
        /\ InOrder(run)
        /\ run[Len(run)] \in {"Authorized", "Rejected"}
        /\ run[Len(run)] = "Authorized"
               => run = <<"TokenPresented", "TokenVerified",
                          "IdentityResolved", "Authorized">>

C36_OwnReadList ==
    /\ (last.op = "create_contact" /\ last.status = HTTP_201)
           => \E c \in contacts : c.user_id = last.uid
    /\ \A c \in contacts, token \in Presented :
           LET reader == Bearer(token)
               r == read_contacts(Cur, now, token)
           IN
           reader.id # 0 =>
               /\ reader.id = c.user_id
                      => r.status = HTTP_200 /\ c.id \in r.result
               /\ reader.id # c.user_id => c.id \notin r.result

(* C37: create_access_token embeds the subject and, for every value of      *)
(* expires_delta that is supplied, 0 included, the expiry issue time +      *)
(* expires_delta; the configured default lifetime is used only when no      *)
(* value is supplied.                                                       *)
C37_SuppliedTtl ==
    \A sub \in Names, expires_delta \in Deltas :
        LET made == create_access_token(sub, expires_delta, now) IN
        /\ made.ok
        /\ made.val.sub = sub
        /\ made.val.exp = timegm(now + Seconds(expires_delta))

(* C38: request_email dispatches a confirmation mail only for a stored,     *)
(* unconfirmed identity; for a confirmed one it answers already-confirmed   *)
(* and dispatches nothing; for an e-mail no identity has it dispatches      *)
(* nothing and still answers with the check-your-email message; the store   *)
(* is the same afterwards in every case.                                    *)
C38_RequestEmail ==
    \A email \in Names :
        LET user == get_user_by_email(users, email)
            r == request_email(Cur, now, email)
        IN
        /\ r.status = HTTP_200
        /\ r.S.users = users
        /\ r.S.contacts = contacts
        /\ IF user.id # 0 /\ ~user.confirmed
           THEN r.detail = "check your email"
                    /\ r.S = send_email(Cur, now, email)
           ELSE r.S = Cur
        /\ user.id # 0 /\ user.confirmed => r.detail = "already confirmed"
        /\ user.id = 0 => r.detail = "check your email"

============================================================================
